---- MODULE Spec2Model ----
(***************************************************************************)
(* Verification model of the bt-automata validator scoring path:           *)
(*   bt_automata/validator/reward_funcs.py  (get_accuracy,                 *)
(*       compute_rewards_sigmoid, compute_rewards_log, get_rewards)        *)
(*   neurons/validator.py                   (Validator.forward,            *)
(*       Validator.get_random_params)                                      *)
(*   bt_automata/utils/rulesets.py          (rule catalogs, Simulate1D,    *)
(*       Simulate2D)                                                       *)
(*   neurons/miner.py                       (Miner.forward)                *)
(*                                                                         *)
(* Numbers.  The reward functions work on real-valued tensors.  With       *)
(* latencies t_1..t_n the L2 norm is N = sqrt(S), S = t_1^2 + .. + t_n^2,  *)
(* and every intermediate value of the pipeline up to the final log or     *)
(* sigmoid is a quotient of two numbers of the form a + b*sqrt(S) with     *)
(* integers a, b.  The model computes with these "linear forms" <<a, b>>   *)
(* exactly (real arithmetic; float32 rounding is not modelled).  Each      *)
(* vector of the pipeline is held as its entries times one positive scale  *)
(* factor, which is stated where the vector is defined.                    *)
(***************************************************************************)
EXTENDS Integers, Sequences, FiniteSets, TLC

VARIABLES
    pc,               \* position of the operation being exercised
    process_times,    \* compute_rewards_*: latency of each response
    accuracies,       \* compute_rewards_*: accuracy (0 or 1) of each response
    rewards_scale,    \* get_rewards: "log" or "sigmoid"
    pt_res,           \* compute_rewards_*: the returned reward vector
    ground_truth_array, \* get_accuracy: the ground-truth grid
    response,         \* get_accuracy: the miner's response synapse
    accuracy,         \* get_accuracy: how the call ended
    query_synapse,    \* the round's task synapse
    miner_uids,       \* the uids queried in the round
    responses,        \* the synapse each queried miner returned
    scores,           \* the validator's trust scores (self.scores)
    rewards_out,      \* how the round's get_rewards call ended
    update_calls,     \* the update_scores calls of the round
    rounds,           \* the forward() coroutines scheduled on the event loop
    running,          \* the coroutine the event loop is running, 0 if none
    sim_runs,         \* get_rewards: Simulate1D.run() calls made so far
    sim,              \* the Simulate1D / Simulate2D object under test
    ca_done,          \* how the object's run() ended
    ic,               \* the InitialConditions call under test
    seed_out,         \* how the seed generator's call ended
    msg,              \* the CAsynapse message under test and its readers
    rule_call,        \* the arguments of a rule_function call
    rule_result,      \* what the rule_function call returned
    reward_responses  \* the (uid, response) pairs handed to get_rewards

vars == <<pc, process_times, accuracies, rewards_scale, pt_res,
          ground_truth_array, response, accuracy,
          query_synapse, miner_uids, responses, scores, rewards_out,
          update_calls, rounds, running, sim_runs, sim, ca_done,
          ic, seed_out, msg, rule_call, rule_result, reward_responses>>

rewards_vars == <<process_times, accuracies, rewards_scale, pt_res>>
accuracy_vars == <<ground_truth_array, response, accuracy>>
round_vars == <<query_synapse, miner_uids, responses, scores, rewards_out,
                update_calls>>
loop_vars == <<rounds, running>>
sim_vars == <<sim_runs, sim, ca_done>>
unit_vars == <<ic, seed_out, msg, rule_call, rule_result, reward_responses>>

Unused == "unused"    \* value of a variable the exercised operation ignores

\* ------------------------------------------------------------------ bounds
MaxResp == 3          \* responses per round
MaxLat == 4           \* latencies are 1..MaxLat time units
MaxCells == 2         \* cells of a grid
MaxMiners == 2        \* miners queried in a round
MaxSteps == 2         \* timesteps of a task
MaxProc == 2          \* process times of a round's responses are 1..MaxProc
MaxForwards == 2      \* forward() coroutines scheduled on the event loop
MaxSide == 2          \* rows and columns of a 2-D automaton
MaxWidth == 3         \* cells of a 1-D automaton

\* --------------------------------------------------- program constants
temp_log == 20
scale_mean_log_num == 1
scale_mean_log_den == 2
temp_sigmoid == 5
scale_mean_sigmoid_num == 1
scale_mean_sigmoid_den == 1

\* ------------------------------------------------ exact real arithmetic
\* A linear form <<a, b>> denotes the real number a + b*sqrt(S), S >= 1.
Sgn(k) == IF k > 0 THEN 1 ELSE IF k < 0 THEN -1 ELSE 0

LFSign(x, S) ==
    LET a == x[1]
        b == x[2]
    IN  IF b = 0 THEN Sgn(a)
        ELSE IF a = 0 THEN Sgn(b)
        ELSE IF Sgn(a) = Sgn(b) THEN Sgn(a)
        ELSE IF a * a = b * b * S THEN 0
        ELSE IF a * a > b * b * S THEN Sgn(a) ELSE Sgn(b)

LFAdd(x, y) == <<x[1] + y[1], x[2] + y[2]>>
LFSub(x, y) == <<x[1] - y[1], x[2] - y[2]>>
LFMul(k, x) == <<k * x[1], k * x[2]>>
LFLess(x, y, S) == LFSign(LFSub(x, y), S) < 0
LFLeq(x, y, S) == LFSign(LFSub(x, y), S) <= 0
LFEq(x, y, S) == LFSign(LFSub(x, y), S) = 0

RECURSIVE LFSum(_)
LFSum(v) == IF Len(v) = 0 THEN <<0, 0>> ELSE LFAdd(Head(v), LFSum(Tail(v)))

\* tensor.max() / tensor.min() of a non-empty vector of linear forms
VMax(v, S) == CHOOSE m \in {v[i] : i \in DOMAIN v} :
                  \A i \in DOMAIN v : LFLeq(v[i], m, S)
VMin(v, S) == CHOOSE m \in {v[i] : i \in DOMAIN v} :
                  \A i \in DOMAIN v : LFLeq(m, v[i], S)

RECURSIVE SumSq(_)
SumSq(t) == IF Len(t) = 0 THEN 0 ELSE Head(t) * Head(t) + SumSq(Tail(t))

IntMax(t) == CHOOSE m \in {t[i] : i \in DOMAIN t} : \A i \in DOMAIN t : t[i] <= m

\* ----------------------------------------------------- reward pipeline
\* TF.normalize(process_times, dim=0): t_i / N.  Scale 2N.
normalize(t) == [i \in DOMAIN t |-> <<2 * t[i], 0>>]

\* as if the overwrite value were pt_0.max().  Scale 2N: 2 * t_max.
comp_max_round_max(t) == <<2 * IntMax(t), 0>>

\* comp_max = (1. + pt_0.max()) / 2.  Scale 2N: N + t_max.
comp_max(t) == <<IntMax(t), 1>>

\* bad_pred_ids = (accuracies != 1.).nonzero().squeeze()
bad_pred_ids(acc) == {i \in DOMAIN acc : acc[i] # 1}

\* pt_0[bad_pred_ids] = comp_max
overwrite(pt_0, bad, cmax) ==
    [i \in DOMAIN pt_0 |-> IF i \in bad THEN cmax ELSE pt_0[i]]

\* pt_2 = pt_1.mean() * scale_mean - pt_1, scale_mean = sn/sd.
\* Scale 2N * Len(pt_1) * sd.
mean_minus(pt_1, sn, sd) ==
    LET total == LFSum(pt_1)
    IN  [i \in DOMAIN pt_1 |->
            LFSub(LFMul(sn, total), LFMul(Len(pt_1) * sd, pt_1[i]))]

\* pt_3 = pt_2 / pt_2.max(); pt_4 = temp * pt_3.
\* The quotient is held as numerators over one positive denominator:
\*   num[i] / den = temp * pt_2[i] / pt_2.max().
\* div = "zero" when pt_2.max() = 0 (division by zero).
scaled_by_max(pt_2, temp, S) ==
    LET mx == VMax(pt_2, S)
        s == LFSign(mx, S)
    IN  [div |-> IF s = 0 THEN "zero" ELSE "ok",
         num |-> [i \in DOMAIN pt_2 |-> LFMul(s * temp, pt_2[i])],
         den |-> LFMul(s, mx)]

NaN == [kind |-> "nan"]
Zero == [kind |-> "zero"]

\* pt_5 = 1. - pt_4.min() + pt_4 ; pt_6 = log(pt_5) ; pt_8 = pt_6 - pt_6.min()
\* pt_9 = pt_8 / pt_8.max().
\* With pt_4 = num/den: pt_5[i] = (den - min(num) + num[i]) / den = arg[i]/den,
\* pt_8[i] = ln(arg[i] / lo), lo = min(arg), and
\* pt_9[i] = ln(arg[i]/lo) / ln(hi/lo), hi = max(arg): 0/0 = nan when hi = lo.
log_rescale(pt_4, S) ==
    IF pt_4.div = "zero"
    THEN [i \in DOMAIN pt_4.num |-> NaN]   \* pt_4 holds 0/0 = nan; min() is nan
    ELSE LET mn == VMin(pt_4.num, S)
             arg == [i \in DOMAIN pt_4.num |->
                        LFAdd(LFSub(pt_4.den, mn), pt_4.num[i])]
             lo == VMin(arg, S)
             hi == VMax(arg, S)
         IN  [i \in DOMAIN arg |->
                IF LFEq(hi, lo, S) THEN NaN
                ELSE [kind |-> "log", arg |-> arg[i], lo |-> lo, hi |-> hi,
                      S |-> S]]

\* pt_5 = TF.sigmoid(pt_4): sigmoid(num/den); x/0 is -inf for x < 0
\* (sigmoid(-inf) = 0) and nan for x = 0.
sigmoid(pt_4, S) ==
    [i \in DOMAIN pt_4.num |->
        IF pt_4.div = "zero"
        THEN (IF LFSign(pt_4.num[i], S) = 0 THEN NaN
              ELSE IF LFSign(pt_4.num[i], S) < 0 THEN Zero
              ELSE [kind |-> "one"])
        ELSE [kind |-> "sigmoid", num |-> pt_4.num[i], den |-> pt_4.den,
              S |-> S]]

\* pt_0 after "pt_0[bad_pred_ids] = comp_max".  Scale 2N.
masked(times, acc) ==
    overwrite(normalize(times), bad_pred_ids(acc), comp_max(times))

\* compute_rewards_sigmoid: pt_1 = hstack((pt_0, [comp_max])) and pt_2
pt_2_sigmoid(times, acc) ==
    LET pt_1 == Append(masked(times, acc), comp_max(times))
    IN  mean_minus(pt_1, scale_mean_sigmoid_num, scale_mean_sigmoid_den)

\* compute_rewards_log: pt_1 = pt_0 and pt_2
pt_2_log(times, acc) ==
    LET pt_1 == masked(times, acc)
    IN  mean_minus(pt_1, scale_mean_log_num, scale_mean_log_den)

compute_rewards_sigmoid(times, acc) ==
    LET S == SumSq(times)
        pt_4 == scaled_by_max(pt_2_sigmoid(times, acc), temp_sigmoid, S)
        pt_5 == sigmoid(pt_4, S)
    IN  SubSeq(pt_5, 1, Len(pt_5) - 1)

compute_rewards_log(times, acc) ==
    LET S == SumSq(times)
        pt_4 == scaled_by_max(pt_2_log(times, acc), temp_log, S)
    IN  log_rescale(pt_4, S)

\* get_rewards, lines 175-183: the scoring function selected by rewards_scale
compute_rewards_func(scale, times, acc) ==
    IF scale = "log" THEN compute_rewards_log(times, acc)
    ELSE compute_rewards_sigmoid(times, acc)

\* ---------------------------------------------- reading a reward value
\* kind "log":     ln(arg/lo) / ln(hi/lo), lo <= arg <= hi, lo < hi
\* kind "sigmoid": 1 / (1 + exp(-num/den)), den > 0
IsNaN(r) == r.kind = "nan"
IsZero(r) == \/ r.kind = "zero"
             \/ r.kind = "log" /\ LFEq(r.arg, r.lo, r.S)
IsOne(r) == \/ r.kind = "one"
            \/ r.kind = "log" /\ LFEq(r.arg, r.hi, r.S)
IsPositive(r) == ~IsNaN(r) /\ ~IsZero(r)
InUnitInterval(r) ==
    \/ r.kind \in {"zero", "one"}
    \/ r.kind = "log" /\ LFLeq(r.lo, r.arg, r.S) /\ LFLeq(r.arg, r.hi, r.S)
    \/ r.kind = "sigmoid" /\ LFSign(r.den, r.S) > 0
\* r1 <= r2 for two rewards of one round (false when either is nan)
RewardLeq(r1, r2) ==
    /\ ~IsNaN(r1) /\ ~IsNaN(r2)
    /\ \/ IsZero(r1)
       \/ IsOne(r2)
       \/ r1.kind = "log" /\ r2.kind = "log" /\ LFLeq(r1.arg, r2.arg, r1.S)
       \/ r1.kind = "sigmoid" /\ r2.kind = "sigmoid"
            /\ LFLeq(r1.num, r2.num, r1.S)
RewardLess(r1, r2) == RewardLeq(r1, r2) /\ ~RewardLeq(r2, r1)

\* ------------------------------------------------------------ grids
\* A numpy array: its shape and its cells in row-major order.
Cells(shape) == IF Len(shape) = 1 THEN shape[1] ELSE shape[1] * shape[2]
Shapes == {<<n>> : n \in 1..MaxCells}
          \cup {sh \in (1..MaxCells) \X (1..MaxCells) : sh[1] * sh[2] <= MaxCells}
Arrays == UNION {{[type |-> "ndarray", shape |-> sh, data |-> d] :
                    d \in [1..Cells(sh) -> {0, 1}]} : sh \in Shapes}

PyNone == [type |-> "NoneType"]
PyObject == [type |-> "object"]       \* a decoded value that is no ndarray

PyInt(k) == [type |-> "int", value |-> k]
PyTuple(v) == [type |-> "tuple", value |-> v]
PyEq(c, k) == c.type = "int" /\ c.value = k            \* c == k
Truthy(c) == IF c.type = "int" THEN c.value # 0 ELSE Len(c.value) # 0

Return(v) == [kind |-> "return", value |-> v]
Raise(e) == [kind |-> "raise", exc |-> e]

\* What a synapse field holding an encoded grid can contain: nothing, a
\* string the codec cannot decode, or the encoding of a value.
Encoded == {[enc |-> "None"], [enc |-> "undecodable"], [enc |-> "malformed"],
            [enc |-> "object"]}
           \cup {[enc |-> "ndarray", array |-> a] : a \in Arrays}

\* bt_automata.utils.misc.decompress_and_deserialize: a decoding failure
\* is reported as None or as a ValueError.
decompress_and_deserialize(data) ==
    CASE data.enc = "None" -> Return(PyNone)
      [] data.enc = "undecodable" -> Return(PyNone)
      [] data.enc = "malformed" -> Raise("ValueError")
      [] data.enc = "object" -> Return(PyObject)
      [] data.enc = "ndarray" -> Return(data.array)

\* np.array_equal(a1, a2): same shape and all cells equal
array_equal(a1, a2) == a1.shape = a2.shape /\ a1.data = a2.data

\* get_accuracy(ground_truth_array, response)
get_accuracy(gt, resp) ==
    LET dec == decompress_and_deserialize(resp.array_data)
        \* the local pred_array is bound only if line 50 completed
        pred_array_bound == dec.kind = "return"
        pred_array == dec.value
    IN  IF dec.kind = "raise" /\ dec.exc # "ValueError"
        THEN dec                                   \* not caught here
        ELSE IF pred_array_bound /\ pred_array = PyNone
        THEN Return(0)                             \* line 54
        ELSE IF pred_array_bound /\ pred_array.type # "ndarray"
        THEN Return(0)                             \* line 58
        ELSE LET acc == IF ~pred_array_bound THEN 0      \* except ValueError
                        ELSE IF array_equal(gt, pred_array) THEN 1 ELSE 0
             IN  \* line 67: np.array2string(pred_array, ...)
                 IF ~pred_array_bound THEN Raise("UnboundLocalError")
                 ELSE Return(acc)

\* ---------------------------------------------------- get_accuracy harness
InitAccuracy ==
    /\ reward_responses = Unused
    /\ pc = "start"
    /\ ic = Unused /\ seed_out = Unused /\ msg = Unused
    /\ rule_call = Unused /\ rule_result = Unused
    /\ ground_truth_array \in Arrays
    /\ response \in [array_data : Encoded]
    /\ accuracy = Unused
    /\ process_times = Unused /\ accuracies = Unused
    /\ rewards_scale = Unused /\ pt_res = Unused
    /\ query_synapse = Unused /\ miner_uids = Unused /\ responses = Unused
    /\ scores = Unused /\ rewards_out = Unused /\ update_calls = Unused
    /\ rounds = Unused /\ running = Unused
    /\ sim_runs = Unused /\ sim = Unused /\ ca_done = Unused

GetAccuracy ==
    /\ pc = "start"
    /\ accuracy' = get_accuracy(ground_truth_array, response)
    /\ pc' = "compared"
    /\ UNCHANGED <<ground_truth_array, response>>
    /\ UNCHANGED rewards_vars
    /\ UNCHANGED round_vars
    /\ UNCHANGED loop_vars
    /\ UNCHANGED unit_vars
    /\ UNCHANGED sim_vars

NextAccuracy == GetAccuracy

SpecAccuracy == InitAccuracy /\ [][NextAccuracy]_vars

\* ---------------------------------------------------------- rulesets
\* The names bt_automata/utils/rulesets.py binds to rule catalogs.
rule_classes_1D == {"Rule30", "Rule54", "Rule62", "Rule110", "Rule124",
                    "Rule126"}
rule_classes_2D == {"GameOfLifeRule", "HighLifeRule", "DayAndNightRule",
                    "FredkinRule", "BriansBrainRule", "SeedsRule",
                    "LambdaRule"}

\* Attribute lookup "rulesets.<name>" for the names used as catalogs.  The
\* module defines rule_classes_1D and rule_classes_2D and no rule_classes.
rulesets_getattr(name) ==
    CASE name = "rule_classes_1D" -> Return(rule_classes_1D)
      [] name = "rule_classes_2D" -> Return(rule_classes_2D)
      [] OTHER -> Raise("AttributeError")

\* rule_func_class(): LambdaRule.__init__ requires lambda_value
instantiate(rule_name) ==
    IF rule_name = "LambdaRule" THEN Raise("TypeError") ELSE Return(rule_name)

nks_number(rule_name) ==
    CASE rule_name = "Rule30" -> 30
      [] rule_name = "Rule54" -> 54
      [] rule_name = "Rule62" -> 62
      [] rule_name = "Rule110" -> 110
      [] rule_name = "Rule124" -> 124
      [] rule_name = "Rule126" -> 126

RECURSIVE SeqSum(_)
SeqSum(n) == IF Len(n) = 0 THEN 0 ELSE Head(n) + SeqSum(Tail(n))

\* cpl.nks_rule(n, rule): the bit of rule selected by the neighbourhood
\* read as a binary number
nks_rule(n, rule) == (rule \div (2 ^ (4 * n[1] + 2 * n[2] + n[3]))) % 2

Bool(b) == IF b THEN 1 ELSE 0

\* <Rule>.rule_function(n, c, t) of the class registered as rule_name, as
\* cellpylib calls it: n is the neighbourhood window and c the identity of
\* the cell, its index (cpl.evolve) or its (row, col) tuple (cpl.evolve2d).
\* The result is given as the integer stored into the history array.
rule_function(rule_name, n, c) ==
    LET sum_n == SeqSum(n)
    IN  CASE rule_name \in rule_classes_1D -> nks_rule(n, nks_number(rule_name))
          [] rule_name = "GameOfLifeRule" ->
                \* live_neighbors = np.sum(n) - c; for a tuple c this is
                \* an array, which is not read as c == 1 and c == 0 fail
                Bool(\/ PyEq(c, 1) /\ 2 <= sum_n - 1 /\ sum_n - 1 <= 3
                     \/ PyEq(c, 0) /\ sum_n = 3)
          [] rule_name = "HighLifeRule" ->
                Bool((Truthy(c) /\ 2 <= sum_n /\ sum_n <= 3) \/ sum_n = 6)
          [] rule_name = "DayAndNightRule" ->
                Bool(sum_n \in {3, 6, 7, 8}
                     \/ (Truthy(c) /\ sum_n \in {4, 6, 7, 8}))
          [] rule_name = "FredkinRule" ->
                Bool(sum_n = 1 \/ (Truthy(c) /\ sum_n = 2))
          [] rule_name = "BriansBrainRule" ->
                IF PyEq(c, 0) /\ sum_n = 2 THEN 1
                ELSE IF PyEq(c, 1) THEN 2 ELSE 0
          [] rule_name = "SeedsRule" -> Bool(sum_n = 2)
          [] rule_name = "LambdaRule" ->
                \* lambda_value = 0.37: sum_n >= 0.37 iff sum_n >= 1
                IF PyEq(c, 0) /\ sum_n >= 1 THEN 1
                ELSE IF PyEq(c, 1) /\ sum_n <= 0 THEN 1 ELSE 0

\* ApplyRule subclasses outside the catalogs, which a caller may pass to
\* Simulate1D / Simulate2D: one whose rule_function raises and one whose
\* rule_function returns a vector instead of a cell value.
OtherRules == {"RaisingRule", "VectorRule"}

\* does a call of the rule's rule_function make the evolution fail?  A
\* vector cannot be stored into a cell of the history array (ValueError).
rule_call_fails(rule_name) == rule_name \in OtherRules

\* One step of cpl.evolve with r = 1: every cell's neighbourhood is
\* (left, cell, right) with periodic boundaries; the rule gets the window
\* and the cell's index.
Wrap(i, w) == ((i - 1) % w) + 1
evolve_step(row, rule_name) ==
    [i \in 1..Len(row) |->
        rule_function(rule_name,
                      <<row[Wrap(i - 1, Len(row))], row[i],
                        row[Wrap(i + 1, Len(row))]>>,
                      PyInt(i - 1))]

\* the k rows that follow row, flattened
RECURSIVE evolve_rows(_, _, _)
evolve_rows(row, k, rule_name) ==
    IF k <= 0 THEN <<>>
    ELSE LET nxt == evolve_step(row, rule_name)
         IN  nxt \o evolve_rows(nxt, k - 1, rule_name)

LastRow(a) == SubSeq(a.data, (a.shape[1] - 1) * a.shape[2] + 1,
                     a.shape[1] * a.shape[2])

\* Simulate1D(ca, timesteps, rule_instance, r=1).run(): cpl.evolve allocates
\* timesteps rows, puts the last given row first and fills the others, and
\* returns the given rows followed by these timesteps - 1 rows; any
\* exception of cpl.evolve is re-raised as RuntimeError.
Simulate1D_run(ca, timesteps, rule_name) ==
    IF ca.type # "ndarray" \/ Len(ca.shape) # 2 \/ timesteps <= 0
    THEN Raise("RuntimeError")
    ELSE IF timesteps >= 2 /\ rule_call_fails(rule_name)
    THEN Raise("RuntimeError")
    ELSE Return([type |-> "ndarray",
                 shape |-> <<ca.shape[1] + timesteps - 1, ca.shape[2]>>,
                 data |-> ca.data
                          \o evolve_rows(LastRow(ca), timesteps - 1, rule_name)])

\* The neighbourhood cpl.evolve2d hands to the rule for cell (row, col) of
\* a rows x cols layer with r = 1: the 3 x 3 window with periodic
\* boundaries; with "von Neumann" the four corners are masked, so that
\* np.sum skips them.  Rows and columns are counted from 0.
LayerCell(layer, cols, row, col) == layer[row * cols + col + 1]
neighbourhood_2d(layer, rows, cols, row, col, neighbourhood) ==
    LET offs == <<-1, 0, 1>>
        window == [k \in 1..9 |->
                     [dr |-> offs[((k - 1) \div 3) + 1],
                      dc |-> offs[((k - 1) % 3) + 1]]]
        kept == SelectSeq(window,
                          LAMBDA o : neighbourhood = "Moore"
                                     \/ o.dr = 0 \/ o.dc = 0)
    IN  [k \in DOMAIN kept |->
            LayerCell(layer, cols, (row + kept[k].dr) % rows,
                      (col + kept[k].dc) % cols)]

\* one step of cpl.evolve2d: the rule gets the window and the tuple (row, col)
evolve2d_step(layer, rows, cols, rule_name, neighbourhood) ==
    [i \in 1..(rows * cols) |->
        LET row == (i - 1) \div cols
            col == (i - 1) % cols
        IN  rule_function(rule_name,
                          neighbourhood_2d(layer, rows, cols, row, col,
                                           neighbourhood),
                          PyTuple(<<row, col>>))]

\* the k layers that follow layer, flattened
RECURSIVE evolve2d_layers(_, _, _, _, _, _)
evolve2d_layers(layer, rows, cols, k, rule_name, neighbourhood) ==
    IF k <= 0 THEN <<>>
    ELSE LET nxt == evolve2d_step(layer, rows, cols, rule_name, neighbourhood)
         IN  nxt \o evolve2d_layers(nxt, rows, cols, k - 1, rule_name,
                                    neighbourhood)

LastLayer(a) == SubSeq(a.data, (a.shape[1] - 1) * a.shape[2] * a.shape[3] + 1,
                       a.shape[1] * a.shape[2] * a.shape[3])

\* as if the constructor stored the neighbourhood type it was given
Simulate2D_init_as_given(ca, timesteps, rule_instance, neighbourhood_type) ==
    [ca |-> ca, timesteps |-> timesteps, rule_instance |-> rule_instance,
     r |-> 1, neighborhood_type |-> neighbourhood_type]

\* Simulate2D.__init__: the object's fields; an invalid neighbourhood type
\* is replaced by "Moore".
Simulate2D_init(ca, timesteps, rule_instance, neighbourhood_type) ==
    [ca |-> ca, timesteps |-> timesteps, rule_instance |-> rule_instance,
     r |-> 1,
     neighborhood_type |-> IF neighbourhood_type \notin {"Moore", "von Neumann"}
                           THEN "Moore" ELSE neighbourhood_type]

\* cpl.evolve2d(cellular_automaton, timesteps, apply_rule, r=1, neighbourhood)
evolve2d(ca, timesteps, rule_name, neighbourhood) ==
    IF ca.type # "ndarray" \/ Len(ca.shape) # 3 \/ timesteps <= 0
    THEN Raise("Exception")
    ELSE IF timesteps >= 2 /\ neighbourhood \notin {"Moore", "von Neumann"}
    THEN Raise("Exception")            \* unknown neighbourhood type
    ELSE IF timesteps >= 2 /\ rule_call_fails(rule_name)
    THEN Raise("Exception")
    ELSE Return([type |-> "ndarray",
                 shape |-> <<ca.shape[1] + timesteps - 1, ca.shape[2],
                             ca.shape[3]>>,
                 data |-> ca.data
                          \o evolve2d_layers(LastLayer(ca), ca.shape[2],
                                             ca.shape[3], timesteps - 1,
                                             rule_name, neighbourhood)])

\* as if run() let the exception of cpl.evolve2d through
Simulate2D_run_unwrapped(self) ==
    evolve2d(self.ca, self.timesteps, self.rule_instance,
             self.neighborhood_type)

\* Simulate2D.run(): any exception of cpl.evolve2d is re-raised as
\* RuntimeError.
Simulate2D_run(self) ==
    LET ca == evolve2d(self.ca, self.timesteps, self.rule_instance,
                       self.neighborhood_type)
    IN  IF ca.kind = "raise" THEN Raise("RuntimeError") ELSE ca

\* Simulate1D.__init__
Simulate1D_init(ca, timesteps, rule_instance) ==
    [ca |-> ca, timesteps |-> timesteps, rule_instance |-> rule_instance,
     r |-> 1]

\* ------------------------------------------------------------- CAsynapse
\* protocol.py: the fields CAsynapse declares, in declaration order, and the
\* list it declares as required_hash_fields.
CAsynapse_fields == <<"initial_state", "timesteps", "rule_func", "array_data">>
required_hash_fields == <<"initial_state", "timesteps", "rule_func",
                          "array_data">>

\* the declared default of a field ("" is held as a string no codec decodes)
CAsynapse_default(field) ==
    CASE field = "initial_state" -> [enc |-> "undecodable"]
      [] field = "timesteps" -> 0
      [] field = "rule_func" -> ""
      [] field = "array_data" -> [enc |-> "None"]

\* CAsynapse(**kwargs): a pydantic model takes the declared fields from the
\* keywords or their defaults and ignores keywords that name no field.
CAsynapse(kwargs) ==
    [field \in {CAsynapse_fields[i] : i \in DOMAIN CAsynapse_fields} |->
        IF field \in DOMAIN kwargs THEN kwargs[field]
        ELSE CAsynapse_default(field)]

\* synapse.<name>
synapse_getattr(synapse, name) ==
    IF name \in DOMAIN synapse THEN Return(synapse[name])
    ELSE Raise("AttributeError")

\* ------------------------------------------------------------ get_rewards
\* torch.zeros_like(input): input must be a Tensor
torch_zeros_like(input) ==
    IF input.type = "Tensor" THEN Return([type |-> "Tensor", data |-> 0])
    ELSE Raise("TypeError")

EmptyTensor == [type |-> "Tensor", data |-> <<>>]    \* torch.FloatTensor([])

\* the first exception raised by a sequence of call outcomes, if any
FirstRaise(outs) ==
    LET bad == {i \in DOMAIN outs : outs[i].kind = "raise"}
    IN  IF bad = {} THEN Return(PyNone)
        ELSE outs[CHOOSE i \in bad : \A j \in bad : i <= j]

\* lines 168-183 of get_rewards: accuracies, process times, uids, rewards
score_responses(gt_array, resps, scale) ==
    LET accs == [i \in DOMAIN resps |-> get_accuracy(gt_array, resps[i].response)]
        process_times_ == [i \in DOMAIN resps |-> resps[i].response.process_time]
        resp_uids == [i \in DOMAIN resps |-> resps[i].uid]
    IN  IF FirstRaise(accs).kind = "raise" THEN FirstRaise(accs)
        ELSE Return([uids |-> resp_uids,
                     rewards |-> compute_rewards_func(scale, process_times_,
                                     [i \in DOMAIN accs |-> accs[i].value])])

\* the try block of get_rewards, lines 148-184
get_rewards_try(query, resps, scale) ==
    LET initial_state == decompress_and_deserialize(query.initial_state)
        timesteps == query.timesteps
        rule_name_attr == synapse_getattr(query, "rule_name")
        rule_name == rule_name_attr.value
        catalog == rulesets_getattr("rule_classes")
    IN  IF initial_state.kind = "raise" THEN initial_state
        ELSE IF rule_name_attr.kind = "raise" THEN rule_name_attr  \* line 150
        ELSE IF catalog.kind = "raise" THEN catalog             \* line 152
        ELSE IF rule_name \notin catalog.value THEN Return(EmptyTensor)
        ELSE IF instantiate(rule_name).kind = "raise"
        THEN instantiate(rule_name)                             \* line 159
        ELSE LET gt_array == Simulate1D_run(initial_state.value, timesteps,
                                            rule_name)
             IN  IF gt_array.kind = "raise" THEN gt_array
                 ELSE score_responses(gt_array.value, resps, scale)

\* get_rewards(self, query_synapse, responses, rewards_scale)
get_rewards(query, resps, scale) ==
    IF Len(resps) = 0
    THEN \* line 145: return [], torch.zeros_like(0)
         IF torch_zeros_like(PyInt(0)).kind = "raise"
         THEN torch_zeros_like(PyInt(0))
         ELSE Return([uids |-> <<>>, rewards |-> torch_zeros_like(PyInt(0)).value])
    ELSE LET body == get_rewards_try(query, resps, scale)
         IN  IF body.kind = "return" THEN body
             ELSE \* except Exception, lines 186-189
                  IF torch_zeros_like(PyInt(0)).kind = "raise"
                  THEN torch_zeros_like(PyInt(0))
                  ELSE Return([uids |-> <<>>,
                               rewards |-> torch_zeros_like(PyInt(0)).value])

\* ------------------------------------------------------ Validator.forward
\* BaseValidatorNeuron.update_scores(rewards, uids): the round's rewards are
\* merged into the scores of the given uids by a moving average; a score is
\* held as the sequence of rewards merged into it.  A uid outside the score
\* vector is discarded.
update_scores(sc, rewards, uids) ==
    [u \in DOMAIN sc |->
        IF \E i \in DOMAIN uids : uids[i] = u
        THEN sc[u] \o SelectSeq([i \in DOMAIN uids |->
                                   [uid |-> uids[i],
                                    reward |-> IF i \in DOMAIN rewards
                                               THEN rewards[i] ELSE NaN]],
                                LAMBDA e : e.uid = u)
        ELSE sc[u]]

\* as if line 139 kept every pair
all_uid_response_pairs(uids, resps) ==
    [i \in DOMAIN uids |-> [uid |-> uids[i], response |-> resps[i]]]

\* line 139: the pairs whose response carries array_data
valid_uid_response_pairs(uids, resps) ==
    SelectSeq([i \in DOMAIN uids |-> [uid |-> uids[i], response |-> resps[i]]],
              LAMBDA pr : pr.response.array_data.enc # "None")

\* lines 148-160 of forward: score the responses and update the scores;
\* every exception is caught and logged.
\* "reward_uids, rewards = get_rewards(...)" needs a pair.
score_round(sc, synapse, uids, resps) ==
    LET got == get_rewards(synapse, valid_uid_response_pairs(uids, resps), "log")
        unpacks == got.kind = "return" /\ got.value # EmptyTensor
    IN  [rewards_out |-> got,
         update_calls |-> IF unpacks
                          THEN <<[rewards |-> got.value.rewards,
                                  uids |-> got.value.uids]>>
                          ELSE <<>>,
         scores |-> IF unpacks
                    THEN update_scores(sc, got.value.rewards, got.value.uids)
                    ELSE sc]

\* bt_automata.utils.misc.serialize_and_compress: the encoding of an array
serialize_and_compress(arr) == [enc |-> "ndarray", array |-> arr]

\* as if the failure of the seed generator were swallowed and the task built
\* from the None left in its place
get_random_params_swallowing(size, initial_state_raw, steps, rule_name) ==
    Return([initial_state |-> [enc |-> "None"], timesteps |-> steps,
            rule_name |-> rule_name])

\* Validator.get_random_params() with the values its random draws gave:
\* size, the array cpl.init_random would return, steps and rule_name.
\* rulesets.get_initial_state is commented out in rulesets.py (line 67 raises
\* AttributeError) and rulesets binds no rule_classes for line 32 to import.
get_random_params(size, initial_state_raw, steps, rule_name) ==
    LET get_initial_state == rulesets_getattr("get_initial_state")
        rule_classes == rulesets_getattr("rule_classes")
    IN  IF get_initial_state.kind = "raise" THEN get_initial_state
        ELSE IF rule_classes.kind = "raise" THEN Raise("NameError")
        ELSE IF rule_name \notin rule_classes.value
        THEN Raise("TypeError")          \* line 79: raise of a non-exception
        ELSE Return([initial_state |-> serialize_and_compress(initial_state_raw),
                     timesteps |-> steps,
                     rule_name |-> rule_name])

\* line 73: the names random.choice draws the rule from
sampled_rule_names == {"Rule30", "Rule54", "Rule62", "Rule110", "Rule124",
                       "Rule126"}

\* The places of forward() where the coroutine awaits and the event loop may
\* run another coroutine: the body of forward has no await expression
\* (dendrite.query and time.sleep are plain calls).
AwaitAtParams == {"params"}     \* as if line 114 awaited its result
AwaitPoints == {}

\* ------------------------------------------- scoring-function harness
\* A round whose pt_2.max() is exactly zero in real arithmetic although its
\* entries were computed from different floats: float32 rounding decides
\* whether the code divides by zero or by a tiny number of either sign.
\* Such rounds are outside the exact arithmetic of this model.  (A single
\* response is not such a round: normalize gives exactly 1.0.)
RoundingSensitive(scale, times, acc) ==
    LET pt_2 == IF scale = "log" THEN pt_2_log(times, acc)
                ELSE pt_2_sigmoid(times, acc)
    IN  /\ Len(times) > 1
        /\ LFSign(VMax(pt_2, SumSq(times)), SumSq(times)) = 0

Rounds == UNION {[1..n -> 1..MaxLat] \X [1..n -> {0, 1}] : n \in 1..MaxResp}

InitRewards ==
    /\ reward_responses = Unused
    /\ pc = "start"
    /\ ic = Unused /\ seed_out = Unused /\ msg = Unused
    /\ rule_call = Unused /\ rule_result = Unused
    /\ \E rd \in Rounds : process_times = rd[1] /\ accuracies = rd[2]
    /\ rewards_scale \in {"log", "sigmoid"}
    /\ ~RoundingSensitive(rewards_scale, process_times, accuracies)
    /\ pt_res = <<>>
    /\ ground_truth_array = Unused /\ response = Unused /\ accuracy = Unused
    /\ query_synapse = Unused /\ miner_uids = Unused /\ responses = Unused
    /\ scores = Unused /\ rewards_out = Unused /\ update_calls = Unused
    /\ rounds = Unused /\ running = Unused
    /\ sim_runs = Unused /\ sim = Unused /\ ca_done = Unused

ComputeRewards ==
    /\ pc = "start"
    /\ pt_res' = compute_rewards_func(rewards_scale, process_times, accuracies)
    /\ pc' = "scored"
    /\ UNCHANGED <<process_times, accuracies, rewards_scale>>
    /\ UNCHANGED accuracy_vars
    /\ UNCHANGED round_vars
    /\ UNCHANGED loop_vars
    /\ UNCHANGED unit_vars
    /\ UNCHANGED sim_vars

NextRewards == ComputeRewards

SpecRewards == InitRewards /\ [][NextRewards]_vars

\* --------------------------------------------------- scoring-block harness
\* The scoring block of Validator.forward (lines 138-160) applied to a task
\* synapse and the responses of the queried miners.
UIDs == 0..MaxMiners                  \* slot 0 is the validator itself
MinerUidLists == {u \in UNION {[1..n -> 1..MaxMiners] : n \in 0..MaxMiners} :
                    \A i, j \in DOMAIN u : i # j => u[i] # u[j]}
Grids2D == {a \in Arrays : Len(a.shape) = 2}
SeedGrids == {a \in Grids2D : a.shape[1] = 1}
ResponseData == {[enc |-> "None"], [enc |-> "undecodable"],
                 [enc |-> "malformed"], [enc |-> "object"]}
                \cup {[enc |-> "ndarray", array |-> a] : a \in Grids2D}
\* the task parameters of a round (validator.py, lines 106-113) and the
\* synapse built from them (lines 124-128)
RoundTasks == [initial_state : {[enc |-> "undecodable"]}
                               \cup {[enc |-> "ndarray", array |-> a] : a \in SeedGrids},
               timesteps : 1..MaxSteps,
               rule_name : {"Rule30", "GameOfLifeRule", "NotARule"}]
Synapses == {CAsynapse(task) : task \in RoundTasks}
MinerResponses == [array_data : ResponseData, process_time : 1..MaxProc]

InitScoring ==
    /\ reward_responses = Unused
    /\ pc = "start"
    /\ ic = Unused /\ seed_out = Unused /\ msg = Unused
    /\ rule_call = Unused /\ rule_result = Unused
    /\ query_synapse \in Synapses
    /\ miner_uids \in MinerUidLists
    /\ responses \in [DOMAIN miner_uids -> MinerResponses]
    /\ scores = [u \in UIDs |-> <<>>]
    /\ rewards_out = Unused
    /\ update_calls = <<>>
    /\ process_times = Unused /\ accuracies = Unused
    /\ rewards_scale = Unused /\ pt_res = Unused
    /\ ground_truth_array = Unused /\ response = Unused /\ accuracy = Unused
    /\ rounds = Unused /\ running = Unused
    /\ sim_runs = Unused /\ sim = Unused /\ ca_done = Unused

ScoreRound ==
    /\ pc = "start"
    /\ LET res == score_round(scores, query_synapse, miner_uids, responses)
       IN  /\ rewards_out' = res.rewards_out
           /\ update_calls' = res.update_calls
           /\ scores' = res.scores
    /\ reward_responses' = valid_uid_response_pairs(miner_uids, responses)
    /\ pc' = "round_scored"
    /\ UNCHANGED <<query_synapse, miner_uids, responses>>
    /\ UNCHANGED rewards_vars
    /\ UNCHANGED accuracy_vars
    /\ UNCHANGED loop_vars
    /\ UNCHANGED <<ic, seed_out, msg, rule_call, rule_result>>
    /\ UNCHANGED sim_vars

NextScoring == ScoreRound

SpecScoring == InitScoring /\ [][NextScoring]_vars

\* ------------------------------------------- a get_rewards call in steps
\* One call of get_rewards: the try block (lines 147-184) with what it did
\* on the way, then the handler (lines 186-189).  The query is the synapse
\* forward builds or an object that carries the task's rule_name.
GroundTruthSynapses == Synapses \cup RoundTasks
ResponsePairs ==
    UNION {[1..n -> [uid : 1..MaxMiners, response : MinerResponses]] :
             n \in 0..MaxMiners}

\* lines 186-189: the handler of get_rewards
get_rewards_except ==
    IF torch_zeros_like(PyInt(0)).kind = "raise" THEN torch_zeros_like(PyInt(0))
    ELSE Return([uids |-> <<>>, rewards |-> torch_zeros_like(PyInt(0)).value])

\* line 169: the accuracies the comprehension has computed when it ends or
\* when a get_accuracy call raises
compared_accuracies(gt_array, resps) ==
    LET raising == {i \in DOMAIN resps :
                      get_accuracy(gt_array, resps[i].response).kind = "raise"}
        done == IF raising = {} THEN Len(resps)
                ELSE (CHOOSE i \in raising : \A j \in raising : i <= j) - 1
    IN  [i \in 1..done |-> get_accuracy(gt_array, resps[i].response).value]

\* lines 161-184: the ground truth is simulated by one Simulate1D.run()
\* call and every response is compared with it; with the outcome go the
\* number of run() calls made, the ground truth and the accuracies computed
get_rewards_scoring(initial_state, timesteps, rule_name, resps, scale) ==
    IF Simulate1D_run(initial_state, timesteps, rule_name).kind = "raise"
    THEN [outcome |-> Simulate1D_run(initial_state, timesteps, rule_name),
          sim_runs |-> 1, ground_truth_array |-> Unused,
          accuracies |-> <<>>]
    ELSE [outcome |-> score_responses(Simulate1D_run(initial_state, timesteps, rule_name).value,
                                      resps, scale),
          sim_runs |-> 1, ground_truth_array |-> Simulate1D_run(initial_state, timesteps, rule_name).value,
          accuracies |-> 
             compared_accuracies(Simulate1D_run(initial_state, timesteps, rule_name).value,
                                 resps)]

\* lines 147-184: the try block of get_rewards, with the Simulate1D.run()
\* calls it made, the ground truth and the accuracies it computed
get_rewards_body(query, resps, scale) ==
    IF decompress_and_deserialize(query.initial_state).kind = "raise"
    THEN [outcome |-> decompress_and_deserialize(query.initial_state),
          sim_runs |-> 0, ground_truth_array |-> Unused,
          accuracies |-> <<>>]
    ELSE IF synapse_getattr(query, "rule_name").kind = "raise"     \* line 150
    THEN [outcome |-> synapse_getattr(query, "rule_name"),
          sim_runs |-> 0, ground_truth_array |-> Unused,
          accuracies |-> <<>>]
    ELSE IF rulesets_getattr("rule_classes").kind = "raise"        \* line 152
    THEN [outcome |-> rulesets_getattr("rule_classes"),
          sim_runs |-> 0, ground_truth_array |-> Unused,
          accuracies |-> <<>>]
    ELSE IF query.rule_name \notin rulesets_getattr("rule_classes").value
    THEN [outcome |-> Return(EmptyTensor),
          sim_runs |-> 0, ground_truth_array |-> Unused,
          accuracies |-> <<>>]
    ELSE IF instantiate(query.rule_name).kind = "raise"            \* line 159
    THEN [outcome |-> instantiate(query.rule_name),
          sim_runs |-> 0, ground_truth_array |-> Unused,
          accuracies |-> <<>>]
    ELSE get_rewards_scoring(
             decompress_and_deserialize(query.initial_state).value,
             query.timesteps, query.rule_name, resps, scale)

InitGroundTruth ==
    /\ reward_responses = Unused
    /\ pc = "called"
    /\ ic = Unused /\ seed_out = Unused /\ msg = Unused
    /\ rule_call = Unused /\ rule_result = Unused
    /\ query_synapse \in GroundTruthSynapses
    /\ responses \in ResponsePairs
    /\ ground_truth_array = Unused
    /\ accuracies = <<>>
    /\ sim_runs = 0
    /\ rewards_out = Unused
    /\ process_times = Unused /\ rewards_scale = "log" /\ pt_res = Unused
    /\ response = Unused /\ accuracy = Unused
    /\ miner_uids = Unused /\ scores = Unused /\ update_calls = Unused
    /\ rounds = Unused /\ running = Unused
    /\ sim = Unused /\ ca_done = Unused

\* lines 143-184: without responses the call ends at line 145; otherwise the
\* try block runs and either returns or leaves through its handler
CallGetRewards ==
    /\ pc = "called"
    /\ IF Len(responses) = 0
       THEN /\ rewards_out' = get_rewards(query_synapse, responses, rewards_scale)
            /\ pc' = IF rewards_out'.kind = "raise" THEN "raised" ELSE "returned"
            /\ UNCHANGED <<sim_runs, ground_truth_array, accuracies>>
       ELSE LET body == get_rewards_body(query_synapse, responses, rewards_scale)
            IN  /\ sim_runs' = body.sim_runs
                /\ ground_truth_array' = body.ground_truth_array
                /\ accuracies' = body.accuracies
                /\ IF body.outcome.kind = "raise"
                   THEN pc' = "except" /\ UNCHANGED rewards_out
                   ELSE pc' = "returned" /\ rewards_out' = body.outcome
    /\ UNCHANGED <<query_synapse, responses>>
    /\ UNCHANGED <<process_times, rewards_scale, pt_res, response, accuracy>>
    /\ UNCHANGED <<miner_uids, scores, update_calls, sim, ca_done>>
    /\ UNCHANGED loop_vars
    /\ UNCHANGED unit_vars

\* lines 186-189: except Exception
HandleException ==
    /\ pc = "except"
    /\ rewards_out' = get_rewards_except
    /\ pc' = IF get_rewards_except.kind = "raise" THEN "raised" ELSE "returned"
    /\ UNCHANGED <<query_synapse, responses, ground_truth_array, accuracies>>
    /\ UNCHANGED <<process_times, rewards_scale, pt_res, response, accuracy>>
    /\ UNCHANGED <<miner_uids, scores, update_calls>>
    /\ UNCHANGED loop_vars
    /\ UNCHANGED unit_vars
    /\ UNCHANGED sim_vars

NextGroundTruth == CallGetRewards \/ HandleException

SpecGroundTruth == InitGroundTruth /\ [][NextGroundTruth]_vars

\* ------------------------------------------------- simulation harness
\* A Simulate1D or Simulate2D object is constructed from its arguments and
\* run.
Seeds1D == UNION {{[type |-> "ndarray", shape |-> <<1, w>>, data |-> d] :
                     d \in [1..w -> {0, 1}]} : w \in 1..MaxWidth}
Seeds2D == UNION {{[type |-> "ndarray", shape |-> <<1, sh[1], sh[2]>>,
                    data |-> d] : d \in [1..(sh[1] * sh[2]) -> {0, 1}]} :
                  sh \in (1..MaxSide) \X (1..MaxSide)}
NeighbourhoodTypes == {"Moore", "von Neumann", "VonNeumann", "hexagonal"}
SimulateArgs ==
    [dim : {"1D"},
     ca : Seeds1D \cup {a \in Arrays : Len(a.shape) = 1},
     timesteps : (-1)..(MaxSteps + 1),
     rule_instance : rule_classes_1D \cup OtherRules,
     neighbourhood_type : {"Moore"}]
    \cup
    [dim : {"2D"},
     ca : Seeds2D \cup {a \in Seeds1D : a.shape[2] = 1},
     timesteps : (-1)..(MaxSteps + 1),
     rule_instance : rule_classes_2D \cup OtherRules,
     neighbourhood_type : NeighbourhoodTypes]

InitSimulate ==
    /\ reward_responses = Unused
    /\ pc = "new"
    /\ ic = Unused /\ seed_out = Unused /\ msg = Unused
    /\ rule_call = Unused /\ rule_result = Unused
    /\ \E args \in SimulateArgs : sim = [args |-> args, obj |-> PyNone]
    /\ ca_done = Unused
    /\ sim_runs = Unused
    /\ process_times = Unused /\ accuracies = Unused
    /\ rewards_scale = Unused /\ pt_res = Unused
    /\ ground_truth_array = Unused /\ response = Unused /\ accuracy = Unused
    /\ query_synapse = Unused /\ miner_uids = Unused /\ responses = Unused
    /\ scores = Unused /\ rewards_out = Unused /\ update_calls = Unused
    /\ rounds = Unused /\ running = Unused

\* Simulate1D(ca, timesteps, rule_instance, r=1) or
\* Simulate2D(ca, timesteps, rule_instance, r=1, neighbourhood_type)
Construct ==
    /\ pc = "new"
    /\ sim' = [sim EXCEPT !.obj =
                 IF sim.args.dim = "1D"
                 THEN Simulate1D_init(sim.args.ca, sim.args.timesteps,
                                      sim.args.rule_instance)
                 ELSE Simulate2D_init(sim.args.ca, sim.args.timesteps,
                                      sim.args.rule_instance,
                                      sim.args.neighbourhood_type)]
    /\ pc' = "constructed"
    /\ UNCHANGED <<ca_done, sim_runs>>
    /\ UNCHANGED rewards_vars
    /\ UNCHANGED accuracy_vars
    /\ UNCHANGED round_vars
    /\ UNCHANGED loop_vars
    /\ UNCHANGED unit_vars

\* <object>.run()
Run ==
    /\ pc = "constructed"
    /\ ca_done' = IF sim.args.dim = "1D"
                  THEN Simulate1D_run(sim.obj.ca, sim.obj.timesteps,
                                      sim.obj.rule_instance)
                  ELSE Simulate2D_run(sim.obj)
    /\ pc' = "ran"
    /\ UNCHANGED <<sim, sim_runs>>
    /\ UNCHANGED rewards_vars
    /\ UNCHANGED accuracy_vars
    /\ UNCHANGED round_vars
    /\ UNCHANGED loop_vars
    /\ UNCHANGED unit_vars

NextSimulate == Construct \/ Run

SpecSimulate == InitSimulate /\ [][NextSimulate]_vars

\* ------------------------------------------------------- Miner.forward
\* as if Miner.forward had no exception handler: what the body of its try
\* block (lines 62-110) raises reaches the caller
Miner_forward_uncaught(synapse) ==
    LET initial_state == decompress_and_deserialize(synapse.initial_state)
        rule_name_attr == synapse_getattr(synapse, "rule_name")
        rule_name == rule_name_attr.value
        ca_done_ == IF rule_name \in rule_classes_1D
                    THEN Simulate1D_run(initial_state.value, synapse.timesteps,
                                        rule_name)
                    ELSE Simulate2D_run(Simulate2D_init(initial_state.value,
                                                        synapse.timesteps,
                                                        rule_name, "Moore"))
    IN  IF initial_state.kind = "raise" THEN initial_state
        ELSE IF initial_state.value = PyNone THEN Raise("TypeError")
        ELSE IF rule_name_attr.kind = "raise" THEN rule_name_attr
        ELSE IF rule_name \notin rule_classes_1D
                /\ rule_name \notin rule_classes_2D THEN synapse
        ELSE IF instantiate(rule_name).kind = "raise" THEN instantiate(rule_name)
        ELSE IF ca_done_.kind = "raise" THEN ca_done_
        ELSE [synapse EXCEPT
                 !.array_data = serialize_and_compress(ca_done_.value)]

\* Miner.forward(synapse): the synapse it returns.  Every exception raised
\* in the try block (lines 62-110) is caught and logged at lines 112-113,
\* and the synapse is returned as it then is.
Miner_forward(synapse) ==
    LET initial_state == decompress_and_deserialize(synapse.initial_state)
        timesteps == synapse.timesteps
        rule_name_attr == synapse_getattr(synapse, "rule_name")
        rule_name == rule_name_attr.value
        rule_instance == instantiate(rule_name)              \* rule_func_class()
        ca_done_ == IF rule_name \in rule_classes_1D
                    THEN Simulate1D_run(initial_state.value, timesteps, rule_name)
                    ELSE Simulate2D_run(Simulate2D_init(initial_state.value,
                                                        timesteps, rule_name,
                                                        "Moore"))
    IN  IF initial_state.kind = "raise" THEN synapse
        ELSE IF initial_state.value = PyNone THEN synapse    \* line 76
        ELSE IF rule_name_attr.kind = "raise" THEN synapse   \* line 81
        ELSE IF rule_name \notin rule_classes_1D
                /\ rule_name \notin rule_classes_2D THEN synapse   \* line 85
        ELSE IF rule_instance.kind = "raise" THEN synapse    \* lines 94, 97
        ELSE IF ca_done_.kind = "raise" THEN synapse         \* line 99
        ELSE [synapse EXCEPT
                 !.array_data = serialize_and_compress(ca_done_.value)]

MinerSynapses ==
    [initial_state : {[enc |-> "None"], [enc |-> "undecodable"],
                      [enc |-> "malformed"], [enc |-> "object"]}
                     \cup {serialize_and_compress(a) : a \in Seeds1D \cup Seeds2D},
     timesteps : 0..MaxSteps,
     rule_name : rule_classes_1D \cup rule_classes_2D \cup {"NotARule"},
     array_data : {[enc |-> "None"]}]
    \cup
    \* the synapses the validator builds at lines 124-128 of validator.py
    {CAsynapse([initial_state |-> serialize_and_compress(a), timesteps |-> t,
                rule_name |-> r]) :
        a \in Seeds1D, t \in 1..MaxSteps, r \in sampled_rule_names}

InitMiner ==
    /\ reward_responses = Unused
    /\ pc = "received"
    /\ ic = Unused /\ seed_out = Unused /\ msg = Unused
    /\ rule_call = Unused /\ rule_result = Unused
    /\ query_synapse \in MinerSynapses
    /\ response = Unused
    /\ process_times = Unused /\ accuracies = Unused
    /\ rewards_scale = Unused /\ pt_res = Unused
    /\ ground_truth_array = Unused /\ accuracy = Unused
    /\ miner_uids = Unused /\ responses = Unused
    /\ scores = Unused /\ rewards_out = Unused /\ update_calls = Unused
    /\ rounds = Unused /\ running = Unused
    /\ sim_runs = Unused /\ sim = Unused /\ ca_done = Unused

MinerForward ==
    /\ pc = "received"
    /\ response' = Miner_forward(query_synapse)
    /\ pc' = "answered"
    /\ UNCHANGED <<ground_truth_array, accuracy>>
    /\ UNCHANGED rewards_vars
    /\ UNCHANGED round_vars
    /\ UNCHANGED loop_vars
    /\ UNCHANGED unit_vars
    /\ UNCHANGED sim_vars

NextMiner == MinerForward

\* ------------------------------------------- an honest miner is scored
\* The validator scores the synapse the miner returned for the task
\* (validator.py, lines 134-160): the one queried miner has uid 1, the pairs
\* handed to get_rewards are those line 139 keeps (none when the miner left
\* array_data None), and get_rewards is called in every round.
HonestAnswer == [array_data |-> response.array_data, process_time |-> 1]
HonestResponses == valid_uid_response_pairs(<<1>>, <<HonestAnswer>>)

ScoreHonest ==
    /\ pc = "answered"
    /\ LET res == score_round([u \in UIDs |-> <<>>], query_synapse,
                              <<1>>, <<HonestAnswer>>)
       IN  /\ rewards_out' = res.rewards_out
           /\ update_calls' = res.update_calls
           /\ scores' = res.scores
    /\ reward_responses' = HonestResponses
    /\ pc' = "honest_scored"
    /\ UNCHANGED accuracy_vars
    /\ UNCHANGED rewards_vars
    /\ UNCHANGED <<query_synapse, miner_uids, responses>>
    /\ UNCHANGED loop_vars
    /\ UNCHANGED <<ic, seed_out, msg, rule_call, rule_result>>
    /\ UNCHANGED sim_vars

NextHonest == MinerForward \/ ScoreHonest

SpecHonest == InitMiner /\ [][NextHonest]_vars

SpecMiner == InitMiner /\ [][NextMiner]_vars

\* ------------------------------------------------ forward on the event loop
\* Each scheduled forward() coroutine: where it is, the locals that matter
\* and how it ended.
NoRound == [pc |-> "scheduled", miner_uids |-> <<>>, drawn |-> Unused,
            params |-> Unused, update_calls |-> <<>>, outcome |-> Unused,
            slept |-> FALSE]

\* the coroutine k may take its next step: the loop is running it, or the
\* loop is free and k is scheduled or suspended at an await
MayRun(k) == \/ running = k
             \/ running = 0 /\ (rounds[k].pc = "scheduled"
                                \/ rounds[k].pc \in AwaitPoints)

\* who holds the loop after k moved to position next
LoopAfter(k, next) ==
    IF next \in AwaitPoints \cup {"raised", "returned"} THEN 0 ELSE k

\* bt_automata.utils.uids.get_random_uids(self, k, exclude): up to k distinct
\* uids of the metagraph, none of them excluded
get_random_uids(k, exclude) ==
    {u \in UNION {[1..n -> 0..MaxMiners] : n \in 0..k} :
        /\ \A i, j \in DOMAIN u : i # j => u[i] # u[j]
        /\ \A i \in DOMAIN u : u[i] \notin exclude}

my_uid == 0

InitForward ==
    /\ reward_responses = Unused
    /\ pc = "loop"
    /\ ic = Unused /\ seed_out = Unused /\ msg = Unused
    /\ rule_call = Unused /\ rule_result = Unused
    /\ rounds = [k \in 1..MaxForwards |-> NoRound]
    /\ running = 0
    /\ scores = [u \in 0..MaxMiners |-> <<>>]
    /\ process_times = Unused /\ accuracies = Unused
    /\ rewards_scale = Unused /\ pt_res = Unused
    /\ ground_truth_array = Unused /\ response = Unused /\ accuracy = Unused
    /\ query_synapse = Unused /\ miner_uids = Unused /\ responses = Unused
    /\ rewards_out = Unused /\ update_calls = Unused
    /\ sim_runs = Unused /\ sim = Unused /\ ca_done = Unused

\* lines 110-118: the loop starts (or resumes) coroutine k, which samples
\* the miners to query
ForwardStart(k) ==
    /\ rounds[k].pc = "scheduled"
    /\ MayRun(k)
    /\ \E uids \in get_random_uids(MaxMiners, {my_uid}) :
          rounds' = [rounds EXCEPT ![k].pc = "params", ![k].miner_uids = uids]
    /\ running' = LoopAfter(k, "params")
    /\ UNCHANGED <<pc, scores>>
    /\ UNCHANGED <<query_synapse, miner_uids, responses, rewards_out, update_calls>>
    /\ UNCHANGED rewards_vars
    /\ UNCHANGED accuracy_vars
    /\ UNCHANGED sim_vars
    /\ UNCHANGED unit_vars

\* lines 121-163: get_random_params() is called outside the try block, so
\* its exception ends the coroutine; otherwise the synapse is built, the
\* miners are queried, the responses scored and the coroutine sleeps.
ForwardRound(k) ==
    /\ rounds[k].pc = "params"
    /\ MayRun(k)
    /\ \E size \in 1..MaxWidth, steps \in 1..MaxSteps,
          rule_name \in sampled_rule_names :
        \E raw \in [1..size -> {0, 1}] :
          LET drawn == [size |-> size, steps |-> steps, rule_name |-> rule_name]
              params == get_random_params(
                            size,
                            [type |-> "ndarray", shape |-> <<1, size>>,
                             data |-> raw],
                            steps, rule_name)
          IN  IF params.kind = "raise"
              THEN \* of the draws only those made before the failing
                   \* line have happened
                   /\ rounds' = [rounds EXCEPT
                                   ![k].pc = "raised",
                                   ![k].drawn = IF params = rulesets_getattr("get_initial_state")
                                                THEN [size |-> size] ELSE drawn,
                                               ![k].params = params,
                                               ![k].outcome = params]
                   /\ scores' = scores
              ELSE \E resps \in [DOMAIN rounds[k].miner_uids -> MinerResponses] :
                     LET res == score_round(scores, CAsynapse(params.value),
                                            rounds[k].miner_uids, resps)
                     IN  /\ rounds' = [rounds EXCEPT
                                         ![k].pc = "returned",
                                         ![k].drawn = drawn,
                                         ![k].params = params,
                                         ![k].update_calls = res.update_calls,
                                         ![k].outcome = Return(PyNone),
                                         ![k].slept = TRUE]
                         /\ scores' = res.scores
    /\ running' = LoopAfter(k, "returned")
    /\ UNCHANGED pc
    /\ UNCHANGED <<query_synapse, miner_uids, responses, rewards_out, update_calls>>
    /\ UNCHANGED rewards_vars
    /\ UNCHANGED accuracy_vars
    /\ UNCHANGED sim_vars
    /\ UNCHANGED unit_vars

NextForward == \E k \in 1..MaxForwards : ForwardStart(k) \/ ForwardRound(k)

SpecForward == InitForward /\ [][NextForward]_vars

\* ------------------------------------------------------------ claims
Scored == pc = "scored"
Responses == DOMAIN pt_res

\* C1 (correctness gating): in every scored non-empty round, every response
\* whose accuracy is 0 has reward exactly 0.
C1_CorrectnessGating ==
    Scored => \A i \in Responses : accuracies[i] = 0 => IsZero(pt_res[i])

\* C2 (anti-gaming ordering): in a round with a correct and an incorrect
\* response, no incorrect response has a reward strictly greater than the
\* reward of a correct response.
C2_AntiGamingOrdering ==
    Scored => \A i, j \in Responses :
                (accuracies[i] # 1 /\ accuracies[j] = 1)
                    => ~RewardLess(pt_res[j], pt_res[i])

\* C3 (latency monotonicity): in an all-correct round, a response that is
\* no slower than another one has a reward that is not smaller.
C3_LatencyMonotone ==
    (Scored /\ \A k \in Responses : accuracies[k] = 1)
        => \A i, j \in Responses :
              process_times[i] <= process_times[j]
                  => ~RewardLess(pt_res[i], pt_res[j])

\* C4 (correct means rewarded): in a round of two or more responses every
\* correct response has a reward r with 0 < r <= 1.
C4_CorrectIsPositive ==
    (Scored /\ Len(pt_res) >= 2)
        => \A i \in Responses :
              accuracies[i] = 1
                  => IsPositive(pt_res[i]) /\ InUnitInterval(pt_res[i])

\* C5 (single-response neutrality): the reward of a lone response is a
\* defined number, positive when the response is correct and 0 when not.
C5_SingleResponseNeutral ==
    (Scored /\ Len(pt_res) = 1)
        => /\ ~IsNaN(pt_res[1])
           /\ accuracies[1] = 1 => IsPositive(pt_res[1])
           /\ accuracies[1] = 0 => IsZero(pt_res[1])

\* C6 (empty-set boundary): get_rewards called with zero present responses
\* returns an explicit empty result (no uids) and does not raise.
RoundScored == pc = "round_scored"
PresentPairs == valid_uid_response_pairs(miner_uids, responses)
C6_EmptyRoundReturnsEmpty ==
    (RoundScored /\ Len(PresentPairs) = 0)
        => /\ rewards_out.kind = "return"
           /\ rewards_out.value.uids = <<>>

\* C7 (unknown rule aborts cleanly): for a task whose rule name is in no
\* catalog, get_rewards returns an empty/abort result without raising,
\* update_scores is not called and the trust scores are those of before the
\* round.
UnknownRule ==
    \E task \in RoundTasks :
        /\ query_synapse = CAsynapse(task)
        /\ task.rule_name \notin rule_classes_1D \cup rule_classes_2D
C7_UnknownRuleAbortsCleanly ==
    (RoundScored /\ UnknownRule)
        => /\ rewards_out.kind = "return"
           /\ update_calls = <<>>
           /\ scores = [u \in UIDs |-> <<>>]

\* C9 (a bad response does not abort the round): in a round on a valid task
\* where one response is undecodable or has the wrong shape and the others
\* are well-formed, update_scores is called once, with every responder of
\* the round.
ValidTask ==
    /\ \E task \in RoundTasks : /\ query_synapse = CAsynapse(task)
                                /\ task.rule_name \in rule_classes_1D
    /\ query_synapse.initial_state.enc = "ndarray"
TruthShape == <<query_synapse.initial_state.array.shape[1]
                   + query_synapse.timesteps - 1,
                query_synapse.initial_state.array.shape[2]>>
WellFormed(resp) == /\ resp.array_data.enc = "ndarray"
                    /\ resp.array_data.array.shape = TruthShape
BadResponse(resp) == resp.array_data.enc # "None" /\ ~WellFormed(resp)
OneBadResponse ==
    Len(responses) >= 2 /\ \E i \in DOMAIN responses :
        /\ BadResponse(responses[i])
        /\ \A j \in DOMAIN responses \ {i} : WellFormed(responses[j])
C9_BadResponseRecovered ==
    (RoundScored /\ ValidTask /\ OneBadResponse)
        => /\ Len(update_calls) = 1
           /\ update_calls[1].uids = miner_uids

\* C8 (malformed responses score 0): for a response whose array_data is
\* missing, cannot be decoded (the decoder returns None or raises
\* ValueError) or decodes to something that is no grid, get_accuracy returns
\* 0.0 and does not raise.
Compared == pc = "compared"
Malformed(resp) == resp.array_data.enc # "ndarray"
C8_MalformedScoresZero ==
    (Compared /\ Malformed(response)) => accuracy = Return(0)

\* C10 (binary, exact accuracy): get_accuracy returns 1.0 exactly when the
\* decoded response is a grid of the ground truth's shape with every cell
\* equal, and returns 0.0 in every other case.
SameGrid(gt, resp) ==
    /\ resp.array_data.enc = "ndarray"
    /\ resp.array_data.array.shape = gt.shape
    /\ \A k \in 1..Cells(gt.shape) : resp.array_data.array.data[k] = gt.data[k]
C10_AccuracyBinaryExact ==
    Compared => accuracy = Return(IF SameGrid(ground_truth_array, response)
                                  THEN 1 ELSE 0)

\* ------------------------------------------------ claims on forward
Finished(k) == rounds[k].pc \in {"raised", "returned"}
InRound(k) == rounds[k].pc \notin {"scheduled", "raised", "returned"}
GenerationFailed(k) == Finished(k) /\ rounds[k].params.kind = "raise"

\* C11 (cancellation): a round whose task generation failed has made no
\* update_scores call, has let no exception escape forward, and has waited
\* the inter-round delay before forward returned.
C11_FailedRoundWaits ==
    \A k \in DOMAIN rounds :
        GenerationFailed(k) => /\ rounds[k].update_calls = <<>>
                               /\ rounds[k].outcome.kind = "return"
                               /\ rounds[k].slept

\* C13 (single-writer rounds): of the forward() coroutines scheduled on the
\* event loop at most one is between its start and its end at any time.
C13_SingleWriterRounds ==
    Cardinality({k \in DOMAIN rounds : InRound(k)}) <= 1

\* C13 witness: a round has ended, another is under way and was started
\* only after the first had ended or while no other was under way.
C13_Witness ==
    \E j, k \in DOMAIN rounds : j # k /\ Finished(j) /\ InRound(k)

\* C20 (generated tasks are well-formed): every task get_random_params
\* returns has a rule name that is in exactly one catalog, positive
\* timesteps and a seed that is not empty, and a call that sampled a rule
\* name in no catalog fails with an error and returns no task.
WellFormedTask(t) ==
    /\ (t.rule_name \in rule_classes_1D) # (t.rule_name \in rule_classes_2D)
    /\ t.timesteps > 0
    /\ t.initial_state.enc = "ndarray"
    /\ Len(t.initial_state.array.data) > 0
PresentUids == {miner_uids[i] : i \in {j \in DOMAIN miner_uids :
                                        responses[j].array_data.enc # "None"}}
GetRewardsEnded == pc \in {"returned", "raised"}
ScorableTask ==
    \E task \in RoundTasks :
        /\ query_synapse \in {task, CAsynapse(task)}
        /\ task.rule_name \in rule_classes_1D
        /\ task.initial_state.enc = "ndarray"
C14_GroundTruthOnce ==
    /\ sim_runs <= 1
    /\ Len(accuracies) > 0 => sim_runs = 1
    /\ (GetRewardsEnded /\ ScorableTask /\ Len(responses) >= 1) => sim_runs = 1

\* ------------------------------------------------ claims on the simulation
Ran == pc = "ran"
ValidSeed ==
    IF sim.args.dim = "1D" THEN Len(sim.args.ca.shape) = 2
    ELSE Len(sim.args.ca.shape) = 3
HistoryRow(a, t) == SubSeq(a.data, t * a.shape[2] + 1, (t + 1) * a.shape[2])

\* C16 (history shape): a 1-D simulation of a width-w seed for timesteps
\* steps returns timesteps + 1 rows of width w, row 0 being the seed and
\* every further row the rule applied to the row before it.
C16_HistoryShape ==
    (Ran /\ sim.args.dim = "1D" /\ ValidSeed /\ sim.args.timesteps > 0
         /\ sim.args.rule_instance \in rule_classes_1D)
        => /\ ca_done.kind = "return"
           /\ ca_done.value.shape = <<sim.args.timesteps + 1,
                                      sim.args.ca.shape[2]>>
           /\ Len(ca_done.value.data)
                 = (sim.args.timesteps + 1) * sim.args.ca.shape[2]
           /\ HistoryRow(ca_done.value, 0) = sim.args.ca.data
           /\ \A t \in 0..(sim.args.timesteps - 1) :
                 HistoryRow(ca_done.value, t + 1)
                    = evolve_step(HistoryRow(ca_done.value, t),
                                  sim.args.rule_instance)

\* C17 (simulation failure is an explicit error): run() raises RuntimeError,
\* and so returns no grid, whenever timesteps <= 0 and whenever the rule
\* function, once called, raises or yields something that does not fit a
\* cell of the history.
RuleCalled == ValidSeed /\ sim.args.timesteps >= 2
C17_SimulationFailureExplicit ==
    (Ran /\ (\/ sim.args.timesteps <= 0
             \/ RuleCalled /\ sim.args.rule_instance \in OtherRules))
        => ca_done = Raise("RuntimeError")

\* C17 witness: a 2-D run over a valid seed whose rule raises.
C17_Witness ==
    /\ Ran /\ sim.args.dim = "2D" /\ ValidSeed /\ RuleCalled
    /\ sim.args.rule_instance = "RaisingRule"
    /\ ca_done = Raise("RuntimeError")

\* C18 (neighbourhood default): a Simulate2D constructed with "Moore" or
\* "von Neumann" holds and runs with that type, constructed with anything
\* else it holds and runs with "Moore".
ExpectedNeighbourhood ==
    IF sim.args.neighbourhood_type \in {"Moore", "von Neumann"}
    THEN sim.args.neighbourhood_type ELSE "Moore"
RunWith(neighbourhood) ==
    evolve2d(sim.args.ca, sim.args.timesteps, sim.args.rule_instance,
             neighbourhood)
C18_NeighbourhoodDefault ==
    (sim.args.dim = "2D" /\ pc \in {"constructed", "ran"})
        => /\ sim.obj.neighborhood_type = ExpectedNeighbourhood
           /\ Ran => IF RunWith(ExpectedNeighbourhood).kind = "return"
                     THEN ca_done = RunWith(ExpectedNeighbourhood)
                     ELSE ca_done.kind = "raise"

\* C18 witness: a run constructed with an invalid type returns the Moore
\* history, which differs from the von Neumann history of the same seed.
C18_Witness ==
    /\ Ran /\ sim.args.dim = "2D"
    /\ sim.args.neighbourhood_type \notin {"Moore", "von Neumann"}
    /\ ca_done.kind = "return"
    /\ ca_done = RunWith("Moore")
    /\ ca_done # RunWith("von Neumann")

\* ------------------------------------------------ claims on the miner
\* C19 (exhaustive dispatch): every rule name of the catalogs is in exactly
\* one of them, and for every synapse carrying such a name, a seed of its
\* dimensionality and positive timesteps the synapse Miner.forward returns
\* carries array_data.
SeedFits ==
    /\ query_synapse.initial_state.enc = "ndarray"
    /\ IF query_synapse.rule_name \in rule_classes_1D
       THEN query_synapse.initial_state.array \in Seeds1D
       ELSE query_synapse.initial_state.array \in Seeds2D
C19_ExhaustiveDispatch ==
    (pc = "answered"
        /\ "rule_name" \in DOMAIN query_synapse
        /\ query_synapse.rule_name \in rule_classes_1D \cup rule_classes_2D
        /\ SeedFits /\ query_synapse.timesteps > 0)
        => /\ (query_synapse.rule_name \in rule_classes_1D)
                  # (query_synapse.rule_name \in rule_classes_2D)
           /\ response.array_data.enc # "None"

\* ------------------------------------------------- initial conditions
\* InitialConditions of bt_automata/utils/rulesets.py (init_1d, init_2d) and
\* of template/utils/rulesets.py (init_random_1d, init_random_2d).  The
\* activation fraction is held as the numerator of a fraction over
\* PercentDen, which a float represents exactly.
MaxSeedSize == 3      \* the size argument ranges over -1..MaxSeedSize
MaxSeedSide == 2      \* rows and cols of init_random_2d range over 0..MaxSeedSide
PercentDen == 4       \* percentages are multiples of 1/4
Percentages == (-1)..(PercentDen + 1)

\* int(a / b) for b > 0: truncation toward zero
py_int(a, b) == IF a >= 0 THEN a \div b ELSE -((-a) \div b)

\* [v] * k: list repetition, the empty list for k <= 0
Repeat(v, k) == [i \in 1..k |-> v]

\* a ^ b on Python ints: bitwise exclusive or in two's complement of
\* unbounded width (0 and -1 are the all-zeros and all-ones words)
RECURSIVE py_xor(_, _)
py_xor(a, b) ==
    IF a = 0 THEN b
    ELSE IF b = 0 THEN a
    ELSE IF a = -1 THEN -b - 1
    ELSE IF b = -1 THEN -a - 1
    ELSE 2 * py_xor((a - (a % 2)) \div 2, (b - (b % 2)) \div 2)
           + (((a % 2) + (b % 2)) % 2)

\* what np.random.shuffle(cells) can leave in cells: any arrangement of the
\* same values
Shuffles(cells) == {a \in [1..Len(cells) -> {0, 1}] : SeqSum(a) = SeqSum(cells)}

\* a bare name evaluated inside rulesets.py: a module global, or NameError
rulesets_name(name) ==
    IF rulesets_getattr(name).kind = "raise" THEN Raise("NameError")
    ELSE rulesets_getattr(name)

\* cpl.init_simple(size): one row of zeros with a 1 at index size // 2;
\* np.zeros refuses a negative size, an empty row has no index 0
init_simple(size) ==
    IF size < 0 THEN Raise("ValueError")
    ELSE IF size = 0 THEN Raise("IndexError")
    ELSE Return([type |-> "ndarray", shape |-> <<1, size>>,
                 data |-> [i \in 1..size |-> Bool(i = (size \div 2) + 1)]])

\* cpl.init_simple2d(rows, cols): one layer of zeros with a 1 in the centre;
\* np.zeros refuses a negative dimension, an empty layer has no centre
init_simple2d(rows, cols) ==
    IF rows < 0 \/ cols < 0 THEN Raise("ValueError")
    ELSE IF rows = 0 \/ cols = 0 THEN Raise("IndexError")
    ELSE Return([type |-> "ndarray", shape |-> <<1, rows, cols>>,
                 data |-> [i \in 1..(rows * cols) |->
                             Bool(i = (rows \div 2) * cols + (cols \div 2) + 1)]])

\* InitialConditions.__init__(size, percentage, simple): line 48 stores False
InitialConditions_init(size, percentage, simple) ==
    [size |-> size, percentage |-> percentage, simple |-> FALSE]

\* InitialConditions.init_1d: both branches pass the bare name size
init_1d(self) ==
    IF rulesets_name("size").kind = "raise" THEN rulesets_name("size")
    ELSE IF self.simple THEN init_simple(rulesets_name("size").value)
    ELSE Raise("TypeError")

\* InitialConditions.init_2d; shuffled is what np.random.shuffle left in
\* cells.  The simple branch builds the seed and returns nothing; the other
\* one reshapes with the bare names rows and cols.  In line 63 the
\* subtraction binds tighter than ^: the zeros number size ^ (2 - num_cells).
init_2d_cells(self) ==
    LET num_cells == py_int(self.size * self.size * self.percentage, PercentDen)
    IN  Repeat(1, num_cells) \o Repeat(0, py_xor(self.size, 2 - num_cells))
init_2d(self, shuffled) ==
    IF self.simple
    THEN (IF init_simple2d(self.size, self.size).kind = "raise"
          THEN init_simple2d(self.size, self.size) ELSE Return(PyNone))
    ELSE IF rulesets_name("rows").kind = "raise" THEN rulesets_name("rows")
    ELSE IF rulesets_name("cols").kind = "raise" THEN rulesets_name("cols")
    ELSE Return([type |-> "ndarray",
                 shape |-> <<1, rulesets_name("rows").value,
                             rulesets_name("cols").value>>,
                 data |-> shuffled])

\* template InitialConditions.__init__(size, percentage)
template_InitialConditions_init(size, percentage) ==
    [size |-> size, percentage |-> percentage]

\* template InitialConditions.init_random_1d: the ones come first (no
\* shuffle); reshape(1, -1) gives one row holding every cell, an empty row
\* of shape (1, 0) when there is none
template_init_random_1d(self) ==
    LET num_cells == py_int(self.size * self.percentage, PercentDen)
        initial_state == Repeat(1, num_cells) \o Repeat(0, self.size - num_cells)
    IN  Return([type |-> "ndarray", shape |-> <<1, Len(initial_state)>>,
                data |-> initial_state])

\* template InitialConditions.init_random_2d(rows, cols)
template_init_random_2d_cells(self, rows, cols) ==
    LET num_cells == py_int(rows * cols * self.percentage, PercentDen)
    IN  Repeat(1, num_cells) \o Repeat(0, rows * cols - num_cells)
template_init_random_2d(self, rows, cols, shuffled) ==
    IF Len(shuffled) # rows * cols THEN Raise("ValueError")     \* reshape
    ELSE Return([type |-> "ndarray", shape |-> <<1, rows, cols>>,
                 data |-> shuffled])

\* ------------------------------------------------ seed generator harness
SeedCalls ==
    [module : {"bt_automata"}, method : {"init_1d", "init_2d"},
     size : (-1)..MaxSeedSize, percentage : Percentages, simple : BOOLEAN,
     rows : {0}, cols : {0}]
    \cup
    [module : {"template"}, method : {"init_random_1d"},
     size : (-1)..MaxSeedSize, percentage : Percentages, simple : {FALSE},
     rows : {0}, cols : {0}]
    \cup
    [module : {"template"}, method : {"init_random_2d"},
     size : {1}, percentage : Percentages, simple : {FALSE},
     rows : 0..MaxSeedSide, cols : 0..MaxSeedSide]

InitSeed ==
    /\ reward_responses = Unused
    /\ pc = "ic_new"
    /\ \E call \in SeedCalls : ic = [call |-> call, obj |-> PyNone]
    /\ seed_out = Unused
    /\ msg = Unused /\ rule_call = Unused /\ rule_result = Unused
    /\ process_times = Unused /\ accuracies = Unused
    /\ rewards_scale = Unused /\ pt_res = Unused
    /\ ground_truth_array = Unused /\ response = Unused /\ accuracy = Unused
    /\ query_synapse = Unused /\ miner_uids = Unused /\ responses = Unused
    /\ scores = Unused /\ rewards_out = Unused /\ update_calls = Unused
    /\ rounds = Unused /\ running = Unused
    /\ sim_runs = Unused /\ sim = Unused /\ ca_done = Unused

\* InitialConditions(size, percentage, simple) / InitialConditions(size, percentage)
ConstructInitialConditions ==
    /\ pc = "ic_new"
    /\ ic' = [ic EXCEPT !.obj =
                IF ic.call.module = "bt_automata"
                THEN InitialConditions_init(ic.call.size, ic.call.percentage,
                                            ic.call.simple)
                ELSE template_InitialConditions_init(ic.call.size,
                                                     ic.call.percentage)]
    /\ pc' = "ic_constructed"
    /\ UNCHANGED <<seed_out, msg, rule_call, rule_result, reward_responses>>
    /\ UNCHANGED rewards_vars
    /\ UNCHANGED accuracy_vars
    /\ UNCHANGED round_vars
    /\ UNCHANGED loop_vars
    /\ UNCHANGED sim_vars

\* <object>.init_1d() / init_2d() / init_random_1d() / init_random_2d(rows, cols)
GenerateSeed ==
    /\ pc = "ic_constructed"
    /\ CASE ic.call.method = "init_1d" -> seed_out' = init_1d(ic.obj)
         [] ic.call.method = "init_2d" ->
               \E shuffled \in Shuffles(init_2d_cells(ic.obj)) :
                   seed_out' = init_2d(ic.obj, shuffled)
         [] ic.call.method = "init_random_1d" ->
               seed_out' = template_init_random_1d(ic.obj)
         [] ic.call.method = "init_random_2d" ->
               \E shuffled \in Shuffles(template_init_random_2d_cells(
                                            ic.obj, ic.call.rows, ic.call.cols)) :
                   seed_out' = template_init_random_2d(ic.obj, ic.call.rows,
                                                       ic.call.cols, shuffled)
    /\ pc' = "seeded"
    /\ UNCHANGED <<ic, msg, rule_call, rule_result, reward_responses>>
    /\ UNCHANGED rewards_vars
    /\ UNCHANGED accuracy_vars
    /\ UNCHANGED round_vars
    /\ UNCHANGED loop_vars
    /\ UNCHANGED sim_vars

NextSeed == ConstructInitialConditions \/ GenerateSeed

SpecSeed == InitSeed /\ [][NextSeed]_vars

\* ------------------------------------------- claims on the seed generator
Seeded == pc = "seeded"
\* the cells of the requested grid
RequestedCells ==
    CASE ic.call.method \in {"init_1d", "init_random_1d"} -> ic.call.size
      [] ic.call.method = "init_2d" -> ic.call.size * ic.call.size
      [] ic.call.method = "init_random_2d" -> ic.call.rows * ic.call.cols
ValidFraction == 0 <= ic.call.percentage /\ ic.call.percentage <= PercentDen
ValidSize == IF ic.call.method = "init_random_2d"
             THEN ic.call.rows > 0 /\ ic.call.cols > 0
             ELSE ic.call.size > 0
\* the value is a grid of the requested cells with exactly
\* floor(cells * p) ones and zeros elsewhere
ExactCountSeed(v) ==
    /\ v.type = "ndarray"
    /\ Len(v.data) = RequestedCells
    /\ \A i \in DOMAIN v.data : v.data[i] \in {0, 1}
    /\ SeqSum(v.data) = (RequestedCells * ic.call.percentage) \div PercentDen

\* C21 (exact-count random seed): for size > 0 and a fraction p in [0,1] the
\* density-controlled generator returns a grid of the requested number of
\* cells of which exactly floor(cells * p) are 1 and all others 0.
C21_ExactCountSeed ==
    (Seeded /\ ~ic.call.simple /\ ValidSize /\ ValidFraction)
        => seed_out.kind = "return" /\ ExactCountSeed(seed_out.value)

\* C22 (seed parameter validation): whenever p is below 0 or above 1 or the
\* size is <= 0, the density-controlled generator fails with an error that
\* reports the bad parameter and returns no grid.
C22_SeedParamsValidated ==
    (Seeded /\ ~ic.call.simple /\ ~(ValidSize /\ ValidFraction))
        => /\ seed_out.kind = "raise"
           /\ seed_out.exc \in {"ConfigurationError", "ValueError"}

\* C28 (simple seed strategy is selectable): an object constructed with
\* simple=True holds that choice and gives the single-active-cell seed of
\* the requested size from init_1d and init_2d; one constructed with
\* simple=False gives the density-controlled random seed.
C28_SimpleSelectable ==
    (ic.call.module = "bt_automata" /\ pc \in {"ic_constructed", "seeded"}
        /\ ValidSize /\ ValidFraction)
        => /\ ic.obj.simple = ic.call.simple
           /\ Seeded =>
                IF ic.call.simple
                THEN seed_out = (IF ic.call.method = "init_1d"
                                 THEN init_simple(ic.call.size)
                                 ELSE init_simple2d(ic.call.size, ic.call.size))
                ELSE seed_out.kind = "return" /\ ExactCountSeed(seed_out.value)

\* ------------------------------------------------------ message harness
\* The validator builds the task message (validator.py, lines 124-128); the
\* miner (miner.py, lines 67 and 81) and get_rewards (reward_funcs.py, line
\* 150) read the rule from it.
NotRead == [kind |-> "not read"]
MessageKwargs ==
    [initial_state : {serialize_and_compress(a) : a \in SeedGrids},
     timesteps : 1..MaxSteps,
     rule_name : sampled_rule_names]

InitMessage ==
    /\ reward_responses = Unused
    /\ pc = "msg_new"
    /\ \E kwargs \in MessageKwargs :
          msg = [kwargs |-> kwargs, synapse |-> PyNone,
                 miner_rule |-> NotRead, scoring_rule |-> NotRead]
    /\ ic = Unused /\ seed_out = Unused
    /\ rule_call = Unused /\ rule_result = Unused
    /\ process_times = Unused /\ accuracies = Unused
    /\ rewards_scale = Unused /\ pt_res = Unused
    /\ ground_truth_array = Unused /\ response = Unused /\ accuracy = Unused
    /\ query_synapse = Unused /\ miner_uids = Unused /\ responses = Unused
    /\ scores = Unused /\ rewards_out = Unused /\ update_calls = Unused
    /\ rounds = Unused /\ running = Unused
    /\ sim_runs = Unused /\ sim = Unused /\ ca_done = Unused

\* validator.py, lines 124-128:
\* CAsynapse(initial_state=..., timesteps=..., rule_name=rule_name)
BuildSynapse ==
    /\ pc = "msg_new"
    /\ msg' = [msg EXCEPT !.synapse = CAsynapse(msg.kwargs)]
    /\ pc' = "msg_built"
    /\ UNCHANGED <<ic, seed_out, rule_call, rule_result, reward_responses>>
    /\ UNCHANGED rewards_vars
    /\ UNCHANGED accuracy_vars
    /\ UNCHANGED round_vars
    /\ UNCHANGED loop_vars
    /\ UNCHANGED sim_vars

\* miner.py, line 81: rule_name = synapse.rule_name
MinerReadsRule ==
    /\ pc = "msg_built"
    /\ msg.miner_rule = NotRead
    /\ msg' = [msg EXCEPT !.miner_rule = synapse_getattr(msg.synapse, "rule_name")]
    /\ UNCHANGED pc
    /\ UNCHANGED <<ic, seed_out, rule_call, rule_result, reward_responses>>
    /\ UNCHANGED rewards_vars
    /\ UNCHANGED accuracy_vars
    /\ UNCHANGED round_vars
    /\ UNCHANGED loop_vars
    /\ UNCHANGED sim_vars

\* reward_funcs.py, line 150: rule_name = query_synapse.rule_name
ScoringReadsRule ==
    /\ pc = "msg_built"
    /\ msg.scoring_rule = NotRead
    /\ msg' = [msg EXCEPT
                 !.scoring_rule = synapse_getattr(msg.synapse, "rule_name")]
    /\ UNCHANGED pc
    /\ UNCHANGED <<ic, seed_out, rule_call, rule_result, reward_responses>>
    /\ UNCHANGED rewards_vars
    /\ UNCHANGED accuracy_vars
    /\ UNCHANGED round_vars
    /\ UNCHANGED loop_vars
    /\ UNCHANGED sim_vars

NextMessage == BuildSynapse \/ MinerReadsRule \/ ScoringReadsRule

SpecMessage == InitMessage /\ [][NextMessage]_vars

\* C23 (message field identity): the message declares exactly the fields
\* initial_state, timesteps, rule_name, array_data, in that order, as its
\* hashed field list; the field the validator writes the rule into is one
\* of them and is a field of the built message holding the rule; and the
\* miner and the scoring engine read that rule from it.
HashedFields == {required_hash_fields[i] : i \in DOMAIN required_hash_fields}
C23_MessageFieldIdentity ==
    /\ required_hash_fields
          = <<"initial_state", "timesteps", "rule_name", "array_data">>
    /\ "rule_name" \in HashedFields
    /\ pc = "msg_built" =>
          /\ "rule_name" \in DOMAIN msg.synapse
          /\ synapse_getattr(msg.synapse, "rule_name")
                = Return(msg.kwargs.rule_name)
          /\ msg.miner_rule \in {NotRead, Return(msg.kwargs.rule_name)}
          /\ msg.scoring_rule \in {NotRead, Return(msg.kwargs.rule_name)}

\* ------------------------------------- claims on the anti-gaming correction
\* pt_0 before and after "pt_0[bad_pred_ids] = comp_max", both in scale 2N,
\* and the number 1 in that scale (2N = 2 * sqrt(S))
Normalized == normalize(process_times)
Corrected == masked(process_times, accuracies)
RoundMax == VMax(Normalized, SumSq(process_times))
OneScaled == <<0, 2>>

\* C24 as stated (overwrite value is the round's maximum): after the
\* correction the normalized latency of every response with accuracy # 1
\* equals the maximum normalized latency of the round, and that of every
\* response with accuracy 1 is unchanged.
C24_OverwriteIsRoundMax ==
    Scored => \A i \in Responses :
                IF accuracies[i] # 1
                THEN LFEq(Corrected[i], RoundMax, SumSq(process_times))
                ELSE Corrected[i] = Normalized[i]

\* C24 amended (overwrite value is comp_max): after the correction the
\* normalized latency of every response with accuracy # 1 is
\* (1 + m) / 2, m being the maximum normalized latency of the round; that
\* of every response with accuracy 1 is unchanged.
C24_OverwriteIsCompMax ==
    Scored => \A i \in Responses :
                IF accuracies[i] # 1
                THEN LFEq(LFMul(2, Corrected[i]), LFAdd(OneScaled, RoundMax),
                          SumSq(process_times))
                ELSE Corrected[i] = Normalized[i]

\* C24 witness: a scored round with an incorrect response and a correct
\* one that is not the slowest.
C24_Witness ==
    /\ Scored
    /\ \E i, j \in Responses :
          /\ accuracies[i] # 1 /\ accuracies[j] = 1
          /\ LFLess(Corrected[j], RoundMax, SumSq(process_times))

\* C25 (degenerate rounds yield defined rewards): in every round of two or
\* more responses, rounds of equal latencies and rounds without a correct
\* response included, every reward is a defined number in [0, 1], none is
\* nan.
C25_DegenerateRoundsDefined ==
    (Scored /\ Len(pt_res) >= 2)
        => \A i \in Responses : ~IsNaN(pt_res[i]) /\ InUnitInterval(pt_res[i])

\* ---------------------------------------------------- rule function harness
\* rule_function(n, c, t) of a 2-D catalog rule called on a binary Moore
\* window of radius 1 (nine cells, row by row, the cell itself in the
\* middle), with c the value of the cell or, as cpl.evolve2d passes it, the
\* cell's (row, col).
MooreWindows == [1..9 -> {0, 1}]
RuleCalls ==
    UNION {{[rule_name |-> r, n |-> n, c |-> c] :
               c \in {PyInt(n[5]), PyTuple(<<0, 1>>)}} :
           r \in rule_classes_2D, n \in MooreWindows}

InitRules ==
    /\ reward_responses = Unused
    /\ pc = "rule_new"
    /\ rule_call \in RuleCalls
    /\ rule_result = Unused
    /\ ic = Unused /\ seed_out = Unused /\ msg = Unused
    /\ process_times = Unused /\ accuracies = Unused
    /\ rewards_scale = Unused /\ pt_res = Unused
    /\ ground_truth_array = Unused /\ response = Unused /\ accuracy = Unused
    /\ query_synapse = Unused /\ miner_uids = Unused /\ responses = Unused
    /\ scores = Unused /\ rewards_out = Unused /\ update_calls = Unused
    /\ rounds = Unused /\ running = Unused
    /\ sim_runs = Unused /\ sim = Unused /\ ca_done = Unused

\* <rule instance>.rule_function(n, c, t)
ApplyRuleFunction ==
    /\ pc = "rule_new"
    /\ rule_result' = rule_function(rule_call.rule_name, rule_call.n, rule_call.c)
    /\ pc' = "rule_applied"
    /\ UNCHANGED <<ic, seed_out, msg, rule_call, reward_responses>>
    /\ UNCHANGED rewards_vars
    /\ UNCHANGED accuracy_vars
    /\ UNCHANGED round_vars
    /\ UNCHANGED loop_vars
    /\ UNCHANGED sim_vars

NextRules == ApplyRuleFunction

SpecRules == InitRules /\ [][NextRules]_vars

\* ------------------------------------------------ claims on the 2-D rules
\* a call whose c is the current value of the window's middle cell
AppliedToCell(rule_name) ==
    /\ pc = "rule_applied"
    /\ rule_call.rule_name = rule_name
    /\ rule_call.c = PyInt(rule_call.n[5])
CellValue == rule_call.n[5]
LiveNeighbours == SeqSum(rule_call.n) - rule_call.n[5]

\* C26 (HighLife extends the Game of Life): on every binary Moore window
\* and cell value HighLifeRule returns 1 where GameOfLifeRule returns 1 and
\* for a dead cell with exactly 6 live neighbours, and 0 in every other
\* case.
C26_HighLifeExtendsLife ==
    AppliedToCell("HighLifeRule")
        => rule_result =
              Bool(\/ rule_function("GameOfLifeRule", rule_call.n, rule_call.c) = 1
                   \/ CellValue = 0 /\ LiveNeighbours = 6)

\* C27 (Seeds): the next value of a cell is 1 exactly when the cell is dead
\* and exactly two of its neighbours, the cell itself not counted, are
\* alive; every live cell becomes 0.
C27_SeedsBirthOnly ==
    AppliedToCell("SeedsRule")
        => rule_result = Bool(CellValue = 0 /\ LiveNeighbours = 2)

\* ------------------------------------------- claims on Miner.forward
Answered == pc = "answered"
Decodable == query_synapse.initial_state.enc = "ndarray"
KnownRule == /\ "rule_name" \in DOMAIN query_synapse
             /\ query_synapse.rule_name \in rule_classes_1D \cup rule_classes_2D
\* the simulation Miner.forward dispatches to for the request (lines 92-99)
MinerSimulation ==
    IF query_synapse.rule_name \in rule_classes_1D
    THEN Simulate1D_run(query_synapse.initial_state.array,
                        query_synapse.timesteps, query_synapse.rule_name)
    ELSE Simulate2D_run(Simulate2D_init(query_synapse.initial_state.array,
                                        query_synapse.timesteps,
                                        query_synapse.rule_name, "Moore"))
SimulationSucceeds == Decodable /\ KnownRule /\ MinerSimulation.kind = "return"

\* C29 (the miner never crashes): Miner.forward returns the request synapse
\* with every field other than array_data unchanged; array_data is set only
\* when the seed was decoded, the rule known and the simulation succeeded,
\* and is then the encoded result; for an unknown rule name, an undecodable
\* seed, timesteps <= 0 or a failed simulation array_data is still None.
C29_MinerNeverCrashes ==
    Answered =>
        /\ DOMAIN response = DOMAIN query_synapse
        /\ \A f \in DOMAIN query_synapse \ {"array_data"} :
              response[f] = query_synapse[f]
        /\ response.array_data.enc # "None" =>
              /\ SimulationSucceeds
              /\ response.array_data = serialize_and_compress(MinerSimulation.value)
        /\ (~Decodable \/ ~KnownRule \/ query_synapse.timesteps <= 0
               \/ ~SimulationSucceeds)
              => response.array_data = [enc |-> "None"]

\* C29 witness: a request with a known rule and a decodable seed whose
\* simulation fails (timesteps <= 0) has been answered without array_data.
C29_Witness ==
    /\ Answered /\ Decodable /\ KnownRule
    /\ query_synapse.timesteps <= 0
    /\ MinerSimulation.kind = "raise"
    /\ response.array_data = [enc |-> "None"]

\* ------------------------------------------- claims on the honest miner
\* C30 (honest miners are scored correct): for every task with a catalog
\* rule name, a seed of the rule's dimensionality and positive timesteps
\* that Miner.forward answered with a result, get_rewards returns a reward
\* for the miner, it is the reward of a round whose ground truth is the
\* miner's own result, that is, of accuracy 1, and it is passed to
\* update_scores.
C30_HonestMinerCorrect ==
    (pc = "honest_scored" /\ KnownRule /\ SeedFits
        /\ query_synapse.timesteps > 0
        /\ response.array_data.enc # "None")
        => /\ rewards_out.kind = "return"
           /\ rewards_out.value # EmptyTensor
           /\ rewards_out.value.uids = <<1>>
           /\ rewards_out = score_responses(MinerSimulation.value,
                                            HonestResponses, "log")
           /\ Len(update_calls) = 1
====
